---- MODULE Spec2Model ----
(***************************************************************************)
(* A state-machine model of the versioned storage engine of               *)
(* storage/src/storage.rs: the five RocksDB column families, the snapshot *)
(* cache, the watch channel of snapshots, and Storage::commit with its    *)
(* blocking worker (commit_inner), one action per statement of the worker *)
(* and per iteration of its write loops (each a single put_cf or          *)
(* delete_cf), the drop of a task that awaits a commit, Storage::load on  *)
(* a database that already holds data, and the VersionedKey codec.        *)
(***************************************************************************)
EXTENDS Integers, Sequences, FiniteSets, TLC

\* ------------------------------------------------------------------ bounds
\* Number of versions the model lets commits produce (versions 0..MaxVersion-1).
MaxVersion == 2
\* Number of worker steps the model lets fail.
MaxFaults == 1
\* Width in bits of the modelled jmt::Version (u64 in the code): wide enough
\* for the version range to exceed the capacity of the snapshot cache.
VersionBits == 4
\* Number of times the model lets the process stop and reopen the store.
MaxLoads == 1

\* ------------------------------------------------------------ input domains
\* Authenticated keys, in BTreeMap (byte) order.
KeyOrder == <<"a", "b">>
Keys == {KeyOrder[i] : i \in 1..Len(KeyOrder)}
\* Values: the byte strings [0x01] and [0x02].
Values == {"01", "02"}
\* Nonconsensus values: the byte string [0xAA].
NCValues == {"aa"}
\* Nonconsensus raw keys, in BTreeMap (byte) order.
NCKeyOrder == <<"x", "y">>
NCKeys == {NCKeyOrder[i] : i \in 1..Len(NCKeyOrder)}
\* Tasks that call Storage::commit, and holders of watch receivers.
Callers == {"c1", "c2"}
Receivers == {"r1"}

\* Option::None, and "no entry for this key" in a map or column family.
None == "none"
Absent == "absent"

\* ----------------------------------------------------------------- versions
VersionModulus == 2 ^ VersionBits
\* u64::MAX, the "pre-genesis" jmt version.
PRE_GENESIS_VERSION == VersionModulus - 1
\* u64::saturating_add, in place of wrapping_add.
saturating_add(v, n) ==
    IF v + n > PRE_GENESIS_VERSION THEN PRE_GENESIS_VERSION ELSE v + n

\* u64::wrapping_add
wrapping_add(v, n) == (v + n) % VersionModulus
\* The versions the model lets commits produce: the first MaxVersion ones
\* and, for a store whose version counter is about to wrap, the last two of
\* the u64 range.
Versions ==
    (0..(MaxVersion - 1)) \cup {PRE_GENESIS_VERSION - 1, PRE_GENESIS_VERSION}

\* ------------------------------------------------------------------ hashing
\* KeyHash::with::<Sha256>(key): the leading byte of the SHA-256 digest of the
\* key ("a" -> ca97.., "b" -> 3e23..); injective on Keys.
KeyHashWith(k) == CASE k = "a" -> "ca" [] k = "b" -> "3e"
KeyHashes == {KeyHashWith(k) : k \in Keys}
\* Key hashes in byte order: the iteration order of the batch's value map.
KeyHashOrder == <<"3e", "ca">>
Preimage(h) == CHOOSE k \in Keys : KeyHashWith(k) = h

\* ---------------------------------------------------------------- the state
VARIABLES
    jmt,                  \* CF "jmt": NodeKey <<version, path>> -> node
    jmt_values,           \* CF "jmt_values": <<keyhash, version>> -> value
    jmt_keys,             \* CF "jmt_keys": key -> keyhash
    jmt_keys_by_keyhash,  \* CF "jmt_keys_by_keyhash": keyhash -> key
    nonconsensus,         \* CF "nonconsensus": raw key -> value
    snapshots,            \* Inner.snapshots: the SnapshotCache, oldest first
    state_tx,             \* Inner.state_tx: the watch channel's current value
    rx,                   \* the watch receivers handed out by subscribe()
    calls,                \* each caller's commit call and its worker's position
    installed,            \* history: versions pushed into the cache, in order
    twin,                 \* history: the tree of a store fed the same
                          \* authenticated changes and no nonconsensus change
    notified,             \* history: versions handed to state_tx.send, in order
    ok_commits,           \* history: number of commit calls that returned Ok
    faults,               \* history: number of worker steps that failed
    codec,                \* a VersionedKey, its encoding and the decoding of it
    loads,                \* history: number of times the store was reopened
    nc_completed          \* history: per raw key, what the last commit that
                          \* returned Ok and changed the key wrote (None: a
                          \* delete, or no such commit)

hist == <<installed, twin, notified, ok_commits, faults, codec, loads,
          nc_completed>>
db == <<jmt, jmt_values, jmt_keys, jmt_keys_by_keyhash, nonconsensus>>
vars == <<jmt, jmt_values, jmt_keys, jmt_keys_by_keyhash, nonconsensus,
          snapshots, state_tx, rx, calls, installed, twin, notified,
          ok_commits, faults, codec, loads, nc_completed>>

\* ------------------------------------------------------------ column families
\* A column family whose keys are composite (jmt, jmt_values) is the function
\* from the keys it holds a row for to the values of the rows.
EmptyCF == <<>>
\* DB::put_cf: the row is created, or its value replaced.
put_cf(cf, key, value) ==
    [k \in (DOMAIN cf) \cup {key} |-> IF k = key THEN value ELSE cf[k]]
\* DB::get_cf on jmt_values: the value of the row, Absent without a row.
get_cf(cf, key) == IF key \in DOMAIN cf THEN cf[key] ELSE Absent

\* ------------------------------------------------------------ VersionedKey
\* Widths in bytes of KeyHash, of jmt::Version (u64) and of an encoded key.
KeyHashLength == 32
VersionLength == 8
VersionedKeyLength == 40
Bytes == 0..255

\* u64::to_le_bytes, in place of to_be_bytes (for values below 2^32).
to_le_bytes(v, n) ==
    [i \in 1..n |-> IF i > 4 THEN 0 ELSE (v \div (256 ^ (i - 1))) % 256]

\* u64::to_be_bytes(v): the n bytes of v, most significant first.
RECURSIVE to_be_bytes(_, _)
to_be_bytes(v, n) ==
    IF n = 0 THEN <<>> ELSE Append(to_be_bytes(v \div 256, n - 1), v % 256)

\* u64::from_be_bytes.
RECURSIVE from_be_bytes(_)
from_be_bytes(bytes) ==
    IF bytes = <<>> THEN 0
    ELSE from_be_bytes(SubSeq(bytes, 1, Len(bytes) - 1)) * 256 + bytes[Len(bytes)]

\* VersionedKey::encode (lines 271-275).
encode(x) == x.key_hash \o to_be_bytes(x.version, VersionLength)

\* The result of decode: Ok(VersionedKey) or Err.
NoVersionedKey == [key_hash |-> <<>>, version |-> 0]
DecodeError == [ok |-> FALSE, key |-> NoVersionedKey]
\* VersionedKey::decode (lines 277-295).
decode(buf) ==
    IF Len(buf) # VersionedKeyLength THEN DecodeError
    ELSE [ok  |-> TRUE,
          key |-> [key_hash |-> SubSeq(buf, 1, KeyHashLength),
                   version  |-> from_be_bytes(SubSeq(buf, KeyHashLength + 1,
                                                     VersionedKeyLength))]]

\* ------------------------------------------------------------ the JMT library
\* A tree is the set of its live leaves: keyhash -> value (None: no leaf).
EmptyTree == [h \in KeyHashes |-> None]
\* The root hash of a tree: a collision-free digest of its leaves.
RootHashOf(tree) == {<<h, tree[h]>> : h \in {g \in KeyHashes : tree[g] # None}}

\* NodeKey: <<version, path>>. Over the two key hashes a tree has a root (the
\* empty nibble path) and at most one leaf below it per key hash, at the path
\* of the hash's first nibble ([3] for 3e.., [c] for ca..). Paths are numbered
\* in the byte order of the encoded NodeKey: version, then depth, then nibble.
RootPath == 0
PathOf(h) == CASE h = "3e" -> 1 [] h = "ca" -> 2
NodeKeyLeq(j, k) == j[1] < k[1] \/ (j[1] = k[1] /\ j[2] <= k[2])

\* Nodes: Null (the root of an empty tree), a leaf (key hash and the hash of
\* its value, which the value itself stands for), an internal node (per child
\* the version of the child's NodeKey and the child's hash). NoNode: no row.
NoChild == [version |-> 0, value |-> None]
NoChildren == [h \in KeyHashes |-> NoChild]
NoNode == [kind |-> "absent", key_hash |-> None, value |-> None,
           children |-> NoChildren]
Null == [NoNode EXCEPT !.kind = "null"]
Leaf(h, value) == [NoNode EXCEPT !.kind = "leaf", !.key_hash = h, !.value = value]
Internal(children) == [NoNode EXCEPT !.kind = "internal", !.children = children]

\* TreeReader::get_node_option on the jmt column family.
get_node_option(key) == IF key \in DOMAIN jmt THEN jmt[key] ELSE NoNode

\* The leaves a root node commits to: its own, or those its child hashes name.
TreeOf(node) ==
    [h \in KeyHashes |->
        CASE node.kind = "leaf" -> (IF node.key_hash = h THEN node.value ELSE None)
          [] node.kind = "internal" -> node.children[h].value
          [] OTHER -> None]
\* The tree rooted at version: the leaves its root row commits to.
TreeAt(version) == TreeOf(get_node_option(<<version, RootPath>>))

\* The tree after the pairs (KeyHash, Option<value>) of a value set.
ApplyValueSet(base, value_set) ==
    [h \in KeyHashes |-> IF value_set[h] = Absent THEN base[h] ELSE value_set[h]]

\* The result of put_value_set: Err, or the root hash and the nodes of the
\* batch in NodeKey order.
PutError == [ok |-> FALSE, root |-> {}, rows |-> <<>>]

\* The TreeCache of one put_value_set call: the version of the NodeKey of its
\* current root, and the nodes it holds in memory (its node batch to be).
\* HashMap::remove on the node cache; a node that is not in the cache is a row
\* of the store, which the cache only notes as stale and never deletes.
cache_remove(node_cache, key) ==
    [k \in DOMAIN node_cache \ {key} |-> node_cache[k]]
TreeCacheError == [ok |-> FALSE, root_version |-> 0, node_cache |-> EmptyCF]
\* TreeCache::new(reader, next_version): the root to build on is the one at
\* next_version - 1; at next_version = 0 it is the root at the pre-genesis
\* version if the store holds one, and otherwise a Null node put into the
\* cache under the NodeKey <<0, []>>.
TreeCache_new(next_version) ==
    IF next_version # 0
    THEN [ok |-> TRUE, root_version |-> next_version - 1, node_cache |-> EmptyCF]
    ELSE IF <<PRE_GENESIS_VERSION, RootPath>> \in DOMAIN jmt
    THEN [ok |-> TRUE, root_version |-> PRE_GENESIS_VERSION,
          node_cache |-> EmptyCF]
    ELSE [ok |-> TRUE, root_version |-> 0,
          node_cache |-> put_cf(EmptyCF, <<0, RootPath>>, Null)]
\* TreeCache::get_node_option: the node cache first, then the reader.
cached_node(node_cache, key) ==
    IF key \in DOMAIN node_cache THEN node_cache[key] ELSE get_node_option(key)

\* JellyfishMerkleTree::put of one pair (key hash h, Option<value>) at version,
\* with insert_at from the root of the cache.
\*  - No root node under the root's NodeKey counts as a Null root. On a Null
\*    root a value makes a leaf at <<version, []>>; a delete changes nothing.
\*    Either way a Null held in the cache under <<version, []>> is dropped from
\*    it, so that after a delete the cache holds no root.
\*  - On a leaf root of the same key hash a value replaces the leaf and a
\*    delete leaves a Null root, at <<version, []>>; on a leaf root of another
\*    key hash a value makes an internal root with both leaves below it (the
\*    old leaf moved down to version) and a delete changes nothing.
\*  - On an internal root the child row of h is read (an error if there is
\*    none) and replaced by a leaf at version, or removed; when one leaf is
\*    left, its row is read (an error if there is none) and moved to the root.
insert_at(tc, h, value, version) ==
    LET root_key == <<tc.root_version, RootPath>>
        node == cached_node(tc.node_cache, root_key)
        new_root_key == <<version, RootPath>>
        Updated(node_cache) ==
            [tc EXCEPT !.root_version = version, !.node_cache = node_cache]
    IN  CASE node.kind \in {"absent", "null"} ->
               LET kept == IF node.kind = "null" /\ tc.root_version = version
                           THEN cache_remove(tc.node_cache, root_key)
                           ELSE tc.node_cache
               IN  IF value # None
                   THEN Updated(put_cf(kept, new_root_key, Leaf(h, value)))
                   ELSE [tc EXCEPT !.node_cache = kept]
          [] node.kind = "leaf" ->
               LET kept == cache_remove(tc.node_cache, root_key)
                   g == node.key_hash
                   forked == [k \in KeyHashes |->
                                 [version |-> version,
                                  value |-> IF k = h THEN value ELSE node.value]]
               IN  IF g = h
                   THEN Updated(put_cf(kept, new_root_key,
                                       IF value # None THEN Leaf(h, value)
                                       ELSE Null))
                   ELSE IF value = None THEN tc
                   ELSE Updated(put_cf(put_cf(put_cf(kept,
                            <<version, PathOf(g)>>, node),
                            <<version, PathOf(h)>>, Leaf(h, value)),
                            new_root_key, Internal(forked)))
          [] node.kind = "internal" ->
               LET child == node.children[h]
                   child_key == <<child.version, PathOf(h)>>
                   has_child == child.value # None
                   dropped == IF has_child
                              THEN cache_remove(tc.node_cache, child_key)
                              ELSE tc.node_cache
                   put_leaf == IF value # None
                               THEN put_cf(dropped, <<version, PathOf(h)>>,
                                           Leaf(h, value))
                               ELSE dropped
                   children == [node.children EXCEPT ![h] =
                                   IF value # None
                                   THEN [version |-> version, value |-> value]
                                   ELSE NoChild]
                   kept == cache_remove(put_leaf, root_key)
                   left == {g \in KeyHashes : children[g].value # None}
                   only == CHOOSE g \in left : TRUE
                   only_key == <<children[only].version, PathOf(only)>>
                   only_node == cached_node(kept, only_key)
               IN  IF has_child
                      /\ cached_node(tc.node_cache, child_key).kind # "leaf"
                   THEN TreeCacheError
                   ELSE IF ~has_child /\ value = None THEN tc
                   ELSE IF left = {}
                   THEN Updated(put_cf(kept, new_root_key, Null))
                   ELSE IF Cardinality(left) > 1
                   THEN Updated(put_cf(kept, new_root_key, Internal(children)))
                   ELSE IF only_node.kind = "absent" THEN TreeCacheError
                   ELSE Updated(put_cf(cache_remove(kept, only_key),
                                       new_root_key, only_node))

\* The nodes of a node cache as the rows of a batch, in NodeKey order.
NodeRows(node_cache) ==
    LET keys == DOMAIN node_cache
        Rank(k) == Cardinality({j \in keys : NodeKeyLeq(j, k)})
    IN  [i \in 1..Cardinality(keys) |->
            LET key == CHOOSE k \in keys : Rank(k) = i
            IN  [key |-> key, node |-> node_cache[key]]]

\* TreeCache::freeze: the root node is looked up under the root's NodeKey, in
\* the cache and then in the store; if there is none, a Null is put there. Its
\* hash is the root hash. A root of another version than the new one (nothing
\* changed) is copied to <<version, []>>. The cache is the node batch.
freeze(tc, version) ==
    LET root_key == <<tc.root_version, RootPath>>
        found == cached_node(tc.node_cache, root_key)
        root_node == IF found.kind = "absent" THEN Null ELSE found
        rooted == IF found.kind = "absent"
                  THEN put_cf(tc.node_cache, root_key, Null)
                  ELSE tc.node_cache
        copied == IF tc.root_version # version
                  THEN put_cf(rooted, <<version, RootPath>>, root_node)
                  ELSE rooted
    IN  [ok |-> TRUE, root |-> RootHashOf(TreeOf(root_node)),
         rows |-> NodeRows(copied)]

\* The pairs of value_set put one after the other, up to the first error;
\* each pair is put into the cache the pair before it left.
RECURSIVE put_each(_, _, _)
put_each(tc, value_set, version) ==
    IF value_set = <<>> \/ ~tc.ok THEN tc
    ELSE CHOOSE last \in
             {put_each(next, Tail(value_set), version) :
                  next \in {insert_at(tc, Head(value_set).key_hash,
                                      Head(value_set).value, version)}} : TRUE
\* JellyfishMerkleTree::put_value_set(value_set, new_version): a TreeCache over
\* the store, each pair put in the order given, then the freeze.
put_value_set(value_set, new_version) ==
    CHOOSE put \in
        {IF ~tc.ok THEN PutError ELSE freeze(tc, new_version) :
             tc \in {put_each(TreeCache_new(new_version), value_set,
                              new_version)}} : TRUE

\* TreeReader::get_value_option(max_version, key_hash): the newest jmt_values
\* row of key_hash whose version is at most max_version.
GetValueOption(max_version, h) ==
    LET vs == {key[2] : key \in {k \in DOMAIN jmt_values :
                                     k[1] = h /\ k[2] <= max_version}}
    IN  IF vs = {} THEN None
        ELSE jmt_values[<<h, CHOOSE v \in vs : \A w \in vs : w <= v>>]

\* ---------------------------------------------------------------- Snapshot
\* Snapshot::get(key) on a snapshot pinned at version.
SnapshotGet(version, k) == GetValueOption(version, KeyHashWith(k))
\* Snapshot::nonconsensus_get(raw_key): a direct column-family lookup.
NonconsensusGet(x) == IF nonconsensus[x] = Absent THEN None ELSE nonconsensus[x]

\* ------------------------------------------------------------ SnapshotCache
\* SnapshotCache::new(latest_snapshot, 10)
SnapshotCacheCapacity == 10
\* SnapshotCache::latest
CacheLatest(cache) == cache[Len(cache)]
\* SnapshotCache::get: <<version>> for Some(snapshot), <<>> for None.
CacheGet(cache, version) ==
    IF \E i \in 1..Len(cache) : cache[i] = version THEN <<version>> ELSE <<>>
\* SnapshotCache::try_push accepts exactly latest.version() + 1 (wrapping).
CanPush(cache, version) == version = wrapping_add(CacheLatest(cache), 1)
\* A push that never evicts: the cache grows past its capacity.
PushEvict_grow(cache, version) == Append(cache, version)

\* On success, evicts the oldest if at capacity.
PushEvict(cache, version) ==
    IF Len(cache) >= SnapshotCacheCapacity
    THEN Append(Tail(cache), version)
    ELSE Append(cache, version)

\* ------------------------------------------------------------------ Storage
latest_snapshot == CacheLatest(snapshots)
latest_version == latest_snapshot
snapshot(version) == CacheGet(snapshots, version)

\* --------------------------------------------------- the writes of one commit
NoChanges == [k \in Keys |-> Absent]
NoNonconsensus == [x \in NCKeys |-> Absent]
\* Cache.unwritten_changes: key -> Some(value) | None (delete); Absent: untouched.
ChangeSets == [Keys -> Values \cup {None, Absent}]
\* Cache.nonconsensus_changes, likewise.
NonconsensusSets == [NCKeys -> NCValues \cup {None, Absent}]

\* The triples (keyhash, key_preimage, v) of unwritten_changes, keyed by hash.
ValueSetOf(changes) == [h \in KeyHashes |-> changes[Preimage(h)]]

\* The index writes of lines 151-166, in iteration order: per changed key one
\* write to jmt_keys, then one to jmt_keys_by_keyhash.
ChangedKeys(changes) == SelectSeq(KeyOrder, LAMBDA k : changes[k] # Absent)
\* The pairs (x.0, x.2) of line 170, in the iteration order of
\* unwritten_changes.
ValuePairs(changes) ==
    LET ck == ChangedKeys(changes)
    IN  [i \in 1..Len(ck) |->
            [key_hash |-> KeyHashWith(ck[i]), value |-> changes[ck[i]]]]
IndexOps(changes) ==
    LET ck == ChangedKeys(changes)
    IN  [i \in 1..(2 * Len(ck)) |->
            [cf  |-> IF i % 2 = 1 THEN "jmt_keys" ELSE "jmt_keys_by_keyhash",
             key |-> ck[(i + 1) \div 2],
             put |-> changes[ck[(i + 1) \div 2]] # None]]
\* jmt_keys after one index write: put_cf(key, keyhash) or delete_cf(key).
IndexKeysAfter(op) ==
    IF op.cf # "jmt_keys" THEN jmt_keys
    ELSE [jmt_keys EXCEPT ![op.key] = IF op.put THEN KeyHashWith(op.key) ELSE Absent]
\* The index writes with the second delete_cf of line 163 left out: a deleted
\* key keeps its jmt_keys_by_keyhash entry.
IndexHashesAfter_keep(op) ==
    IF op.cf # "jmt_keys_by_keyhash" \/ ~op.put THEN jmt_keys_by_keyhash
    ELSE [jmt_keys_by_keyhash EXCEPT ![KeyHashWith(op.key)] = op.key]

\* jmt_keys_by_keyhash after one index write: put_cf(keyhash, key) or
\* delete_cf(keyhash).
IndexHashesAfter(op) ==
    IF op.cf # "jmt_keys_by_keyhash" THEN jmt_keys_by_keyhash
    ELSE [jmt_keys_by_keyhash EXCEPT ![KeyHashWith(op.key)] =
              IF op.put THEN op.key ELSE Absent]

\* The leaf value writes of lines 185-199: batch.node_batch.values() in keyhash
\* order, the entries without a value skipped.
ValueOps(changes) ==
    SelectSeq(KeyHashOrder, LAMBDA h : changes[Preimage(h)] \notin {Absent, None})
\* jmt_values after one value write: put_cf under the VersionedKey of
\* (version, key hash).
ValuesAfter(h, version, value) == put_cf(jmt_values, <<h, version>>, value)

\* The nonconsensus writes of lines 202-217, in key order.
NonconsensusOps(nc) == SelectSeq(NCKeyOrder, LAMBDA x : nc[x] # Absent)
\* nonconsensus after one write: put_cf(key, value) or delete_cf(key).
NonconsensusAfter(x, v) ==
    [nonconsensus EXCEPT ![x] = IF v # None THEN v ELSE Absent]

\* ------------------------------------------------------------- commit calls
\* No receiver: not subscribed, or dropped. A live receiver records whether a
\* value was sent that it has not seen; since (the number of commits that had
\* returned Ok when it subscribed) and observed (the versions delivered to it,
\* in order) are history.
NoReceiver == [live |-> FALSE, changed |-> FALSE, since |-> 0, observed |-> <<>>]

\* A caller with no commit call in progress. n: the number of writes the
\* worker has made in its current loop; batch: the nodes put_value_set
\* returned; awaited: the future of the call is still held by its task (the
\* JoinHandle of line 235 was not dropped).
Idle == [pc |-> "idle", base |-> PRE_GENESIS_VERSION, changes |-> NoChanges,
         nc |-> NoNonconsensus, new_version |-> PRE_GENESIS_VERSION, n |-> 0,
         batch |-> <<>>, root |-> {}, result |-> "none", awaited |-> TRUE]
\* A call whose worker has ended with result (Ok carries the root hash); the
\* result reaches the caller if the call is still awaited.
Returned(call, result) ==
    [Idle EXCEPT !.pc = "done", !.result = result,
                 !.root = IF result = "Ok" THEN call.root ELSE {},
                 !.awaited = call.awaited]
WorkerPcs == {"index", "jmt", "nodes", "values", "nonconsensus", "push", "send"}
InWorker(c) == calls[c].pc \in WorkerPcs
\* The worker after one more iteration of a loop of count writes: at the next
\* write of the loop or, the loop over, at the statement after it.
Advance(call, count, next_pc) ==
    IF call.n + 1 < count THEN [call EXCEPT !.n = call.n + 1]
    ELSE [call EXCEPT !.pc = next_pc, !.n = 0]

\* No key is being encoded or decoded.
NoCodec == [pc |-> "none", x |-> NoVersionedKey, buf |-> <<>>, out |-> DecodeError]

Init ==
    /\ jmt = EmptyCF
    /\ jmt_values = EmptyCF
    /\ jmt_keys = [k \in Keys |-> Absent]
    /\ jmt_keys_by_keyhash = [h \in KeyHashes |-> Absent]
    /\ nonconsensus = [x \in NCKeys |-> Absent]
    /\ snapshots = <<PRE_GENESIS_VERSION>>
    /\ state_tx = PRE_GENESIS_VERSION
    /\ rx = [r \in Receivers |-> NoReceiver]
    /\ calls = [c \in Callers |-> Idle]
    /\ installed = <<>>
    /\ twin = EmptyTree
    /\ notified = <<>>
    /\ ok_commits = 0
    /\ faults = 0
    /\ codec = NoCodec
    /\ loads = 0
    /\ nc_completed = [x \in NCKeys |-> None]

\* commit without the comparison of line 249: every delta reaches the worker.
commit_unchecked(c, base, changes, nc) ==
    /\ calls[c].pc \in {"idle", "done"}
    /\ wrapping_add(latest_version, 1) \in Versions
    /\ calls' = [calls EXCEPT ![c] =
           [Idle EXCEPT !.pc = "index", !.base = base, !.changes = changes,
                        !.nc = nc,
                        !.new_version = wrapping_add(latest_version, 1)]]
    /\ UNCHANGED <<db, snapshots, state_tx, rx, hist>>

\* Storage::commit up to the spawn of the worker (lines 240-253).
commit(c, base, changes, nc) ==
    /\ calls[c].pc \in {"idle", "done"}
    /\ LET old_version == latest_version
           new_version == wrapping_add(old_version, 1)
       IN  IF old_version # base
           THEN calls' = [calls EXCEPT ![c] =
                    [Returned(Idle, "VersionMismatch") EXCEPT !.base = base]]
           ELSE calls' = [calls EXCEPT ![c] =
                    [Idle EXCEPT !.pc = "index", !.base = base,
                                 !.changes = changes, !.nc = nc,
                                 !.new_version = new_version]]
    /\ UNCHANGED <<db, snapshots, state_tx, rx, hist>>

\* commit_inner, lines 151-166: one iteration step of the loop over the
\* two-way index of keys and key hashes, a single put_cf or delete_cf; with
\* nothing to write, the worker goes on to put_value_set.
WriteIndex(c) ==
    /\ calls[c].pc = "index"
    /\ LET ops == IndexOps(calls[c].changes)
           n == calls[c].n
       IN  /\ IF n < Len(ops)
              THEN /\ jmt_keys' = IndexKeysAfter(ops[n + 1])
                   /\ jmt_keys_by_keyhash' = IndexHashesAfter(ops[n + 1])
              ELSE UNCHANGED <<jmt_keys, jmt_keys_by_keyhash>>
           /\ calls' = [calls EXCEPT ![c] = Advance(calls[c], Len(ops), "jmt")]
    /\ UNCHANGED <<jmt, jmt_values, nonconsensus, snapshots, state_tx, rx,
                   hist>>

\* put_value_set fed the nonconsensus changes too: the change of the first
\* nonconsensus key lands on the first key hash.
PutValueSet_nonconsensus(c) ==
    /\ calls[c].pc = "jmt"
    /\ LET leak == calls[c].nc[NCKeyOrder[1]]
           leaked == IF leak = Absent THEN calls[c].changes
                     ELSE [calls[c].changes EXCEPT ![KeyOrder[1]] = leak]
           put == put_value_set(ValuePairs(leaked), calls[c].new_version)
       IN  IF ~put.ok
           THEN calls' = [calls EXCEPT ![c] = Returned(calls[c], "JmtError")]
           ELSE calls' = [calls EXCEPT ![c].pc = "nodes", ![c].n = 0,
                                      ![c].batch = put.rows,
                                      ![c].root = put.root]
    /\ UNCHANGED <<db, snapshots, state_tx, rx, hist>>

\* commit_inner, lines 168-172: jmt.put_value_set(changes, new_version).
PutValueSet(c) ==
    /\ calls[c].pc = "jmt"
    /\ LET put == put_value_set(ValuePairs(calls[c].changes),
                                calls[c].new_version)
       IN  IF ~put.ok
           THEN calls' = [calls EXCEPT ![c] = Returned(calls[c], "JmtError")]
           ELSE calls' = [calls EXCEPT ![c].pc = "nodes", ![c].n = 0,
                                      ![c].batch = put.rows,
                                      ![c].root = put.root]
    /\ UNCHANGED <<db, snapshots, state_tx, rx, hist>>

\* commit_inner, line 175, and Inner::write_node_batch (lines 301-316): one
\* iteration of the loop, the put_cf of the next node of the batch over
\* whatever row the column family holds under that NodeKey; with an empty
\* batch, the worker goes on to the leaf values.
write_node_batch(c) ==
    /\ calls[c].pc = "nodes"
    /\ LET batch == calls[c].batch
           n == calls[c].n
           next == Advance(calls[c], Len(batch), "values")
       IN  /\ IF n < Len(batch)
              THEN jmt' = put_cf(jmt, batch[n + 1].key, batch[n + 1].node)
              ELSE UNCHANGED jmt
           /\ calls' = [calls EXCEPT ![c] =
                  IF next.pc = "values" THEN [next EXCEPT !.batch = <<>>]
                  ELSE next]
    /\ UNCHANGED <<jmt_values, jmt_keys, jmt_keys_by_keyhash, nonconsensus,
                   snapshots, state_tx, rx, hist>>

\* commit_inner, lines 185-199: one iteration of the loop over the leaf
\* values, a put_cf under the VersionedKey; with no value to write, the worker
\* goes on to the nonconsensus changes.
WriteValues(c) ==
    /\ calls[c].pc = "values"
    /\ LET ch == calls[c].changes
           ops == ValueOps(ch)
           n == calls[c].n
       IN  /\ IF n < Len(ops)
              THEN jmt_values' = ValuesAfter(ops[n + 1], calls[c].new_version,
                                             ch[Preimage(ops[n + 1])])
              ELSE UNCHANGED jmt_values
           /\ calls' = [calls EXCEPT ![c] =
                  Advance(calls[c], Len(ops), "nonconsensus")]
    /\ UNCHANGED <<jmt, jmt_keys, jmt_keys_by_keyhash, nonconsensus,
                   snapshots, state_tx, rx, hist>>

\* The last nonconsensus write followed at once by the send of the new
\* snapshot, ahead of the push into the cache.
WriteNonconsensus_notify(c) ==
    /\ calls[c].pc = "nonconsensus"
    /\ LET nc == calls[c].nc
           ops == NonconsensusOps(nc)
           n == calls[c].n
           next == Advance(calls[c], Len(ops), "push")
       IN  /\ IF n < Len(ops)
              THEN nonconsensus' = NonconsensusAfter(ops[n + 1], nc[ops[n + 1]])
              ELSE UNCHANGED nonconsensus
           /\ calls' = [calls EXCEPT ![c] = next]
           /\ IF next.pc = "push" /\ \E r \in Receivers : rx[r].live
              THEN /\ state_tx' = calls[c].new_version
                   /\ rx' = [r \in Receivers |->
                                IF rx[r].live THEN [rx[r] EXCEPT !.changed = TRUE]
                                ELSE rx[r]]
              ELSE UNCHANGED <<state_tx, rx>>
    /\ UNCHANGED <<jmt, jmt_values, jmt_keys, jmt_keys_by_keyhash,
                   snapshots, hist>>

\* commit_inner, lines 202-217: one iteration of the loop over the
\* nonconsensus changes, a put_cf or delete_cf; with no change to write, the
\* worker goes on to the push.
WriteNonconsensus(c) ==
    /\ calls[c].pc = "nonconsensus"
    /\ LET nc == calls[c].nc
           ops == NonconsensusOps(nc)
           n == calls[c].n
       IN  /\ IF n < Len(ops)
              THEN nonconsensus' = NonconsensusAfter(ops[n + 1], nc[ops[n + 1]])
              ELSE UNCHANGED nonconsensus
           /\ calls' = [calls EXCEPT ![c] = Advance(calls[c], Len(ops), "push")]
    /\ UNCHANGED <<jmt, jmt_values, jmt_keys, jmt_keys_by_keyhash,
                   snapshots, state_tx, rx, hist>>

\* nc_completed once a commit carrying the nonconsensus changes nc returns Ok.
CompletedAfter(nc) ==
    [x \in NCKeys |-> IF nc[x] = Absent THEN nc_completed[x] ELSE nc[x]]

\* The push of lines 219-226 with the refusal of try_push ignored: the snapshot
\* is installed whatever the cache's latest version.
TryPush_unchecked(c) ==
    /\ calls[c].pc = "push"
    /\ snapshots' = PushEvict(snapshots, calls[c].new_version)
    /\ installed' = Append(installed, calls[c].new_version)
    /\ twin' = ApplyValueSet(twin, ValueSetOf(calls[c].changes))
    /\ calls' = [calls EXCEPT ![c].pc = "send"]
    /\ UNCHANGED <<db, state_tx, rx, notified, ok_commits, faults, codec, loads,
                   nc_completed>>

\* commit_inner, lines 219-226: try_push(..).expect(..) panics on a refusal, and
\* the panic of the blocking task surfaces as a JoinError.
TryPush(c) ==
    /\ calls[c].pc = "push"
    /\ IF CanPush(snapshots, calls[c].new_version)
       THEN /\ snapshots' = PushEvict(snapshots, calls[c].new_version)
            /\ installed' = Append(installed, calls[c].new_version)
            /\ twin' = ApplyValueSet(twin, ValueSetOf(calls[c].changes))
            /\ calls' = [calls EXCEPT ![c].pc = "send"]
       ELSE /\ calls' = [calls EXCEPT ![c] = Returned(calls[c], "JoinError")]
            /\ UNCHANGED <<snapshots, installed, twin>>
    /\ UNCHANGED <<db, state_tx, rx, notified, ok_commits, faults, codec, loads,
                   nc_completed>>

\* The send of line 230 with its error propagated (`?`) instead of ignored:
\* without a receiver the call returns the error, after the push.
Send_propagated(c) ==
    /\ calls[c].pc = "send"
    /\ IF \E r \in Receivers : rx[r].live
       THEN /\ state_tx' = calls[c].new_version
            /\ rx' = [r \in Receivers |->
                         IF rx[r].live THEN [rx[r] EXCEPT !.changed = TRUE]
                         ELSE rx[r]]
            /\ calls' = [calls EXCEPT ![c] = Returned(calls[c], "Ok")]
            /\ ok_commits' = ok_commits + 1
            /\ nc_completed' = CompletedAfter(calls[c].nc)
       ELSE /\ calls' = [calls EXCEPT ![c] = Returned(calls[c], "SendError")]
            /\ UNCHANGED <<state_tx, rx, ok_commits, nc_completed>>
    /\ notified' = Append(notified, calls[c].new_version)
    /\ UNCHANGED <<db, snapshots, installed, twin, faults, codec, loads>>

\* The send of line 230 handed the snapshot the worker read at line 128, the
\* one of the version the commit builds on, instead of the new snapshot.
Send_stale(c) ==
    /\ calls[c].pc = "send"
    /\ IF \E r \in Receivers : rx[r].live
       THEN /\ state_tx' = calls[c].base
            /\ rx' = [r \in Receivers |->
                         IF rx[r].live THEN [rx[r] EXCEPT !.changed = TRUE]
                         ELSE rx[r]]
       ELSE UNCHANGED <<state_tx, rx>>
    /\ calls' = [calls EXCEPT ![c] = Returned(calls[c], "Ok")]
    /\ notified' = Append(notified, calls[c].base)
    /\ ok_commits' = ok_commits + 1
    /\ nc_completed' = CompletedAfter(calls[c].nc)
    /\ UNCHANGED <<db, snapshots, installed, twin, faults, codec, loads>>

\* commit_inner, lines 228-232: watch::Sender::send stores the value and marks
\* it unseen for every receiver, unless no receiver exists; the error of that
\* case is ignored; then Ok(root_hash).
Send(c) ==
    /\ calls[c].pc = "send"
    /\ IF \E r \in Receivers : rx[r].live
       THEN /\ state_tx' = calls[c].new_version
            /\ rx' = [r \in Receivers |->
                         IF rx[r].live THEN [rx[r] EXCEPT !.changed = TRUE]
                         ELSE rx[r]]
       ELSE UNCHANGED <<state_tx, rx>>
    /\ calls' = [calls EXCEPT ![c] = Returned(calls[c], "Ok")]
    /\ notified' = Append(notified, calls[c].new_version)
    /\ ok_commits' = ok_commits + 1
    /\ nc_completed' = CompletedAfter(calls[c].nc)
    /\ UNCHANGED <<db, snapshots, installed, twin, faults, codec, loads>>

\* The number of writes the worker's current loop still has to make; the call
\* of put_value_set counts as one.
RemainingWrites(call) ==
    CASE call.pc = "index" -> Len(IndexOps(call.changes)) - call.n
      [] call.pc = "jmt" -> 1
      [] call.pc = "nodes" -> Len(call.batch) - call.n
      [] call.pc = "values" -> Len(ValueOps(call.changes)) - call.n
      [] call.pc = "nonconsensus" -> Len(NonconsensusOps(call.nc)) - call.n
      [] OTHER -> 0

\* The next write of the worker fails (`?` on a put_cf, delete_cf or
\* put_value_set error): the writes already made stay in the store and the
\* call returns the error.
Fail(c) ==
    /\ calls[c].pc \in {"index", "jmt", "nodes", "values", "nonconsensus"}
    /\ RemainingWrites(calls[c]) > 0
    /\ faults < MaxFaults
    /\ faults' = faults + 1
    /\ calls' = [calls EXCEPT ![c] =
           Returned(calls[c], IF calls[c].pc = "jmt" THEN "JmtError"
                              ELSE "BackingStoreError")]
    /\ UNCHANGED <<db, snapshots, state_tx, rx, installed, twin, notified,
                   ok_commits, codec, loads, nc_completed>>

\* The task awaiting commit is dropped while the worker runs: the future of
\* commit_inner and with it the JoinHandle of lines 124-235 are dropped, which
\* detaches the blocking task; the closure keeps running.
DropCaller(c) ==
    /\ InWorker(c)
    /\ calls[c].awaited
    /\ calls' = [calls EXCEPT ![c].awaited = FALSE]
    /\ UNCHANGED <<db, snapshots, state_tx, rx, hist>>

\* ------------------------------------------------------------------ reopening
\* get_rightmost_leaf (lines 320-338): the last key of the jmt column family
\* and its node, if that node is a leaf: <<version>> for Some, <<>> for None.
get_rightmost_leaf ==
    IF DOMAIN jmt = {} THEN <<>>
    ELSE LET last == CHOOSE k \in DOMAIN jmt : \A j \in DOMAIN jmt : NodeKeyLeq(j, k)
         IN  IF jmt[last].kind = "leaf" THEN <<last[1]>> ELSE <<>>
\* latest_version(db) (lines 340-342) with the unwrap_or(u64::MAX) of line 70.
jmt_version ==
    IF get_rightmost_leaf = <<>> THEN PRE_GENESIS_VERSION ELSE get_rightmost_leaf[1]

\* The process stops, whatever its workers were doing, and Storage::load
\* (lines 41-87) opens the database again: a cache and a channel holding the
\* snapshot of jmt_version, no receiver, no call.
load ==
    /\ loads < MaxLoads
    /\ loads' = loads + 1
    /\ snapshots' = <<jmt_version>>
    /\ state_tx' = jmt_version
    /\ rx' = [r \in Receivers |-> NoReceiver]
    /\ calls' = [c \in Callers |-> Idle]
    /\ UNCHANGED <<db, installed, twin, notified, ok_commits, faults, codec,
                   nc_completed>>

\* -------------------------------------------------------------- subscribers
\* Storage::subscribe (lines 98-103): watch::Sender::subscribe gives a receiver
\* that has seen the current value.
subscribe(r) ==
    /\ ~rx[r].live
    /\ rx' = [rx EXCEPT ![r] = [live |-> TRUE, changed |-> FALSE,
                                since |-> ok_commits, observed |-> <<>>]]
    /\ UNCHANGED <<db, snapshots, state_tx, calls, hist>>

\* watch::Receiver::changed followed by borrow_and_update: once a value it has
\* not seen was sent, the receiver is delivered the channel's current value.
Poll(r) ==
    /\ rx[r].live
    /\ rx[r].changed
    /\ rx' = [rx EXCEPT ![r].changed = FALSE,
                        ![r].observed = Append(@, state_tx)]
    /\ UNCHANGED <<db, snapshots, state_tx, calls, hist>>

\* The receiver is dropped.
DropReceiver(r) ==
    /\ rx[r].live
    /\ rx' = [rx EXCEPT ![r] = NoReceiver]
    /\ UNCHANGED <<db, snapshots, state_tx, calls, hist>>

\* ----------------------------------------------------------- specifications
Range(seq) == {seq[i] : i \in 1..Len(seq)}
\* The base snapshots a caller can hold: in the process that created the
\* store, the pre-genesis one and every snapshot installed so far; in a
\* process that reopened it, the snapshots of its cache (the one Storage::load
\* made at jmt_version and those pushed since).
HeldVersions ==
    IF loads = 0 THEN {PRE_GENESIS_VERSION} \cup Range(installed)
    ELSE Range(snapshots)

\* A commit call with any delta built on a held snapshot, its changes drawn
\* from change_sets and nonconsensus_sets; the calls that pass the version
\* check are those whose new version lies in versions.
CommitCallWithin(c, versions, change_sets, nonconsensus_sets) ==
    \E base \in HeldVersions, changes \in change_sets, nc \in nonconsensus_sets :
        /\ base = latest_version => wrapping_add(latest_version, 1) \in versions
        /\ commit(c, base, changes, nc)
CommitCall(c, change_sets, nonconsensus_sets) ==
    CommitCallWithin(c, Versions, change_sets, nonconsensus_sets)

WorkerStep(c) ==
    \/ WriteIndex(c)
    \/ PutValueSet(c)
    \/ write_node_batch(c)
    \/ WriteValues(c)
    \/ WriteNonconsensus(c)
    \/ TryPush(c)
    \/ Send(c)

FailStep(c) == Fail(c)

ReceiverStep(r) == subscribe(r) \/ Poll(r) \/ DropReceiver(r)

\* The deltas of the concurrent callers: each writes or deletes the first key.
RaceChangeSets ==
    {ch \in ChangeSets : /\ ch[KeyOrder[1]] # Absent
                         /\ \A i \in 2..Len(KeyOrder) : ch[KeyOrder[i]] = Absent}

\* The nonconsensus changes of a delta that touches the first raw key only.
SingleNonconsensusSets ==
    {nc \in NonconsensusSets :
        \A i \in 2..Len(NCKeyOrder) : nc[NCKeyOrder[i]] = Absent}

\* Any number of tasks call commit on clones of the handle, concurrently.
Next ==
    \/ \E c \in Callers : CommitCall(c, RaceChangeSets, {NoNonconsensus})
    \/ \E c \in Callers : WorkerStep(c)
    \/ \E c \in Callers : FailStep(c)
    \/ \E r \in Receivers : ReceiverStep(r)

Spec == Init /\ [][Next]_vars

\* One task calls commit and awaits each call before the next one.
SerialCaller == "c1"
NextSerial ==
    \/ CommitCall(SerialCaller, ChangeSets, SingleNonconsensusSets)
    \/ WorkerStep(SerialCaller)
    \/ FailStep(SerialCaller)

SpecSerial == Init /\ [][NextSerial]_vars

\* One task commits, awaiting each call, while receivers subscribe and poll.
NextSubscribe ==
    \/ CommitCall(SerialCaller, ChangeSets, SingleNonconsensusSets)
    \/ WorkerStep(SerialCaller)
    \/ \E r \in Receivers : ReceiverStep(r)

SpecSubscribe == Init /\ [][NextSubscribe]_vars

\* One task commits, awaiting each call; worker steps fail and receivers
\* subscribe and poll.
NextFaulty ==
    \/ CommitCall(SerialCaller, RaceChangeSets, SingleNonconsensusSets)
    \/ WorkerStep(SerialCaller)
    \/ FailStep(SerialCaller)
    \/ \E r \in Receivers : ReceiverStep(r)

SpecFaulty == Init /\ [][NextFaulty]_vars

\* The VersionedKey codec on its own: a key is encoded and the bytes decoded,
\* or a buffer of any length is decoded.
\* A byte string of n bytes: lead, then fill.
Filled(lead, fill, n) == [i \in 1..n |-> IF i = 1 THEN lead ELSE fill]
CodecKeyHashes ==
    {Filled(lead, fill, KeyHashLength) : lead \in {0, 62, 202, 255}, fill \in {0, 35, 255}}
CodecVersions == {0, 1, 255, 256, 258, 65535, 16777217, 2147483647}
CodecKeys == [key_hash : CodecKeyHashes, version : CodecVersions]
\* Buffers that are not the encoding of a key: every length from 0 to one
\* more than an encoded key except that of an encoded key, and twice it.
CodecBuffers ==
    {Filled(lead, 255, n) : lead \in {0, 255},
                            n \in ((0..(VersionedKeyLength + 1)) \ {VersionedKeyLength})
                                  \cup {2 * VersionedKeyLength}}

InitCodec ==
    /\ jmt = EmptyCF
    /\ jmt_values = EmptyCF
    /\ jmt_keys = [k \in Keys |-> Absent]
    /\ jmt_keys_by_keyhash = [h \in KeyHashes |-> Absent]
    /\ nonconsensus = [x \in NCKeys |-> Absent]
    /\ snapshots = <<PRE_GENESIS_VERSION>>
    /\ state_tx = PRE_GENESIS_VERSION
    /\ rx = [r \in Receivers |-> NoReceiver]
    /\ calls = [c \in Callers |-> Idle]
    /\ installed = <<>>
    /\ twin = EmptyTree
    /\ notified = <<>>
    /\ ok_commits = 0
    /\ faults = 0
    /\ loads = 0
    /\ nc_completed = [x \in NCKeys |-> None]
    /\ \/ \E x \in CodecKeys : codec = [NoCodec EXCEPT !.pc = "key", !.x = x]
       \/ \E buf \in CodecBuffers : codec = [NoCodec EXCEPT !.pc = "buffer", !.buf = buf]

Encode ==
    /\ codec.pc = "key"
    /\ codec' = [codec EXCEPT !.pc = "encoded", !.buf = encode(codec.x)]
    /\ UNCHANGED <<db, snapshots, state_tx, rx, calls, installed, twin,
                   notified, ok_commits, faults, loads, nc_completed>>

Decode ==
    /\ codec.pc \in {"encoded", "buffer"}
    /\ codec' = [codec EXCEPT !.pc = IF codec.pc = "encoded" THEN "roundtrip"
                                     ELSE "decoded",
                              !.out = decode(codec.buf)]
    /\ UNCHANGED <<db, snapshots, state_tx, rx, calls, installed, twin,
                   notified, ok_commits, faults, loads, nc_completed>>

NextCodec == Encode \/ Decode

SpecCodec == InitCodec /\ [][NextCodec]_vars

\* A store that is one commit short of the largest u64 version, reopened: the
\* database was built by PRE_GENESIS_VERSION commits that each put the first
\* value under the first key while no receiver was subscribed, and
\* Storage::load found the leaf of version u64::MAX - 1 as its last node.
InitNearWrap ==
    LET n == PRE_GENESIS_VERSION
        k == KeyOrder[1]
        h == KeyHashWith(k)
        value == "01"
    IN  /\ jmt = [key \in {<<v, RootPath>> : v \in 0..(n - 1)} |-> Leaf(h, value)]
        /\ jmt_values = [key \in {<<h, v>> : v \in 0..(n - 1)} |-> value]
        /\ jmt_keys = [j \in Keys |-> IF j = k THEN h ELSE Absent]
        /\ jmt_keys_by_keyhash = [g \in KeyHashes |-> IF g = h THEN k ELSE Absent]
        /\ nonconsensus = [x \in NCKeys |-> Absent]
        /\ snapshots = <<n - 1>>
        /\ state_tx = n - 1
        /\ rx = [r \in Receivers |-> NoReceiver]
        /\ calls = [c \in Callers |-> Idle]
        /\ installed = [i \in 1..n |-> i - 1]
        /\ twin = [g \in KeyHashes |-> IF g = h THEN value ELSE None]
        /\ notified = [i \in 1..n |-> i - 1]
        /\ ok_commits = n
        /\ faults = 0
        /\ codec = NoCodec
        /\ loads = 1
        /\ nc_completed = [x \in NCKeys |-> None]

\* One task commits, from the empty store and from the store about to wrap.
NextWrap ==
    \/ CommitCall(SerialCaller, RaceChangeSets, {NoNonconsensus})
    \/ WorkerStep(SerialCaller)

SpecWrap == (Init \/ InitNearWrap) /\ [][NextWrap]_vars

\* One task commits often enough to fill the snapshot cache and push once
\* more: the versions 0 .. SnapshotCacheCapacity, each with the empty delta or
\* a put of the first key.
CacheVersions == 0..SnapshotCacheCapacity
CacheChangeSets == {NoChanges, [NoChanges EXCEPT ![KeyOrder[1]] = "01"]}
NextCache ==
    \/ CommitCallWithin(SerialCaller, CacheVersions, CacheChangeSets, {NoNonconsensus})
    \/ WorkerStep(SerialCaller)

SpecCache == Init /\ [][NextCache]_vars

\* One task commits, worker steps fail, and the process stops and reopens
\* the store at any moment.
NextReopen ==
    \/ CommitCall(SerialCaller, RaceChangeSets, SingleNonconsensusSets)
    \/ WorkerStep(SerialCaller)
    \/ FailStep(SerialCaller)
    \/ load

SpecReopen == Init /\ [][NextReopen]_vars

\* Tasks call commit on clones of the handle and any of them is dropped while
\* its worker runs; no write fails. A blocking task that was spawned runs to
\* its end: each worker's steps are weakly fair.
NextDrop ==
    \/ \E c \in Callers : CommitCall(c, RaceChangeSets, {NoNonconsensus})
    \/ \E c \in Callers : WorkerStep(c)
    \/ \E c \in Callers : DropCaller(c)
    \/ \E r \in Receivers : ReceiverStep(r)

SpecDrop ==
    /\ Init
    /\ [][NextDrop]_vars
    /\ \A c \in Callers : WF_vars(WorkerStep(c))

\* One task commits, awaiting each call, with deltas that change any of the
\* nonconsensus keys; worker steps fail.
NextNonconsensus ==
    \/ CommitCall(SerialCaller, RaceChangeSets, NonconsensusSets)
    \/ WorkerStep(SerialCaller)
    \/ FailStep(SerialCaller)

SpecNonconsensus == Init /\ [][NextNonconsensus]_vars

\* ================================================================== claims
\* The last n elements of seq.
Suffix(seq, n) == SubSeq(seq, Len(seq) - n + 1, Len(seq))
Min(a, b) == IF a <= b THEN a ELSE b

\* C1. Starting from an empty store, the versions installed in the snapshot
\* cache are 0, 1, ..., n-1 in that order, without gap or repeat, where n is
\* the number of commit calls that succeeded (a call between its push and its
\* return counts among them); and in every reachable state latest_version()
\* is the highest version committed, or u64::MAX when no commit has succeeded.
C1_MonotonicVersions ==
    LET n == Len(installed)
        pushed == [i \in 1..(n + 1) |-> IF i = 1 THEN PRE_GENESIS_VERSION ELSE i - 2]
    IN  /\ \A i \in 1..n : installed[i] = i - 1
        /\ n = ok_commits + Cardinality({c \in Callers : calls[c].pc = "send"})
        /\ snapshots = Suffix(pushed, Min(n + 1, SnapshotCacheCapacity))
        /\ latest_version = IF n = 0 THEN PRE_GENESIS_VERSION ELSE n - 1
\* Two commits have succeeded, one call was refused by try_push and a worker
\* step has failed: the cache holds u64::MAX, 0, 1.
C1_Witness ==
    /\ ok_commits = 2
    /\ latest_version = 1
    /\ faults >= 1
    /\ \E c \in Callers : calls[c].result = "JoinError"

\* C2. A commit call whose delta's base snapshot version differs from the
\* current latest version returns the version-mismatch error and changes
\* nothing: no column family, not the snapshot cache, and nothing is sent on
\* the subscription channel.
C2_StaleBaseRejected ==
    [][\A c \in Callers :
          (/\ calls[c].pc \in {"idle", "done"}
           /\ calls'[c] # calls[c]
           /\ calls'[c].base # latest_version)
          => /\ calls'[c].pc = "done"
             /\ calls'[c].result = "VersionMismatch"
             /\ UNCHANGED <<db, snapshots, state_tx, rx, installed, notified>>]_vars
\* A delta built on the version 0 snapshot was refused after version 1 was
\* committed.
C2_Witness ==
    \E c \in Callers : /\ calls[c].result = "VersionMismatch"
                       /\ calls[c].base = 0
                       /\ latest_version = 1

\* C3. The base-version check of commit alone serializes writers: no two
\* workers run for the same new version, and no call that passed the check is
\* refused later by the snapshot cache (every call that does not publish is
\* rejected with the version-mismatch error, before it writes).
C3_CheckSerializesWriters ==
    /\ \A c, d \in Callers :
          (c # d /\ InWorker(c) /\ InWorker(d))
          => calls[c].new_version # calls[d].new_version
    /\ \A c \in Callers : calls[c].result # "JoinError"

\* C4. Snapshot stability: for every committed version V and every
\* authenticated key k, no step of a later commit (its writes and deletes of k
\* at later versions, a failed attempt included) changes what get(k) returns on
\* the snapshot pinned at V.
C4_SnapshotStability ==
    [][\A V \in Range(installed), k \in Keys :
          SnapshotGet(V, k)' = SnapshotGet(V, k)]_vars
\* C5. When the commit producing version V deletes a key k that was live at
\* V-1 with value B, no jmt_values row is written for k at V, and right after
\* the push snapshot(V).get(k) is none while snapshot(V-1).get(k) is still B; a
\* key written by the same commit is returned by snapshot(V).get with its new
\* value.
C5_DeleteIsVisibleAtNewVersion ==
    \A c \in Callers :
        calls[c].pc = "send" =>
            LET V == calls[c].new_version
            IN  \A k \in Keys :
                    LET h == KeyHashWith(k)
                    IN  /\ (/\ calls[c].changes[k] = None
                            /\ V >= 1
                            /\ TreeAt(V - 1)[h] # None)
                           => /\ get_cf(jmt_values, <<h, V>>) = Absent
                              /\ SnapshotGet(V, k) = None
                              /\ SnapshotGet(V - 1, k) = TreeAt(V - 1)[h]
                        /\ calls[c].changes[k] \in Values
                           => SnapshotGet(V, k) = calls[c].changes[k]

\* Whether key k is live at the latest version: a leaf of the latest tree.
LiveAtLatest(k) == TreeAt(latest_version)[KeyHashWith(k)] # None

\* C6. Index mutuality: after any sequence of successful commits (no call is
\* running and no worker step ever failed), for every authenticated key k live
\* at the latest version jmt_keys[k] = hash(k) and
\* jmt_keys_by_keyhash[hash(k)] = k, and for every other key (deleted last, or
\* never written) neither index holds an entry.
C6_IndexMutuality ==
    (faults = 0 /\ \A c \in Callers : ~InWorker(c))
    => \A k \in Keys :
          IF LiveAtLatest(k)
          THEN /\ jmt_keys[k] = KeyHashWith(k)
               /\ jmt_keys_by_keyhash[KeyHashWith(k)] = k
          ELSE /\ jmt_keys[k] = Absent
               /\ jmt_keys_by_keyhash[KeyHashWith(k)] = Absent
\* After two successful commits key a, live at version 0, is deleted and key b
\* is live.
C6_Witness ==
    /\ faults = 0
    /\ \A c \in Callers : ~InWorker(c)
    /\ ok_commits = 2
    /\ SnapshotGet(0, "a") # None
    /\ ~LiveAtLatest("a")
    /\ LiveAtLatest("b")
    /\ jmt_keys["a"] = Absent
    /\ jmt_keys_by_keyhash[KeyHashWith("b")] = "b"

\* C7. When a step of the commit worker fails, the call returns an error, no
\* snapshot of its new version is installed, latest_version() is still the
\* version the call started from, and nothing is sent on the channel.
C7_FailedCommitPublishesNothing ==
    [][\A c \in Callers :
          (InWorker(c) /\ calls'[c].pc = "done" /\ calls'[c].result # "Ok")
          => /\ calls[c].new_version \notin Range(installed')
             /\ calls[c].new_version \notin Range(notified')
             /\ latest_version' = calls[c].base
             /\ UNCHANGED <<snapshots, state_tx, rx>>]_vars
\* The worker of the second commit failed after its node batch was written:
\* the nodes of version 1 are in the store, the latest version is 0 and the
\* receiver was delivered version 0 only.
C7_Witness ==
    /\ faults = 1
    /\ \E c \in Callers : calls[c].result = "BackingStoreError"
    /\ latest_version = 0
    /\ <<1, RootPath>> \in DOMAIN jmt
    /\ \E r \in Receivers : rx[r].live /\ rx[r].observed = <<0>> /\ ~rx[r].changed

\* C8. Subscription freshness: for a receiver obtained from subscribe() and
\* followed by N >= 1 successful commits, the channel's current value is the
\* snapshot of the N-th of them; and a receiver that was delivered a value
\* after each of them has observed every committed version, in commit order
\* (stated at the states where no commit call is running).
C8_SubscriptionFreshness ==
    \A r \in Receivers :
        (rx[r].live /\ \A c \in Callers : ~InWorker(c)) =>
            LET N == ok_commits - rx[r].since
            IN  /\ N >= 1 => state_tx = installed[ok_commits]
                /\ Len(rx[r].observed) = N
                   => rx[r].observed = SubSeq(installed, rx[r].since + 1, ok_commits)

\* C9. For any receiver and any interleaving of commits and polls, the
\* versions delivered to the receiver are strictly increasing.
C9_DeliveredVersionsIncrease ==
    \A r \in Receivers :
        \A i, j \in 1..Len(rx[r].observed) :
            i < j => rx[r].observed[i] < rx[r].observed[j]

\* C10. The root hash returned by commit does not depend on the nonconsensus
\* namespace: as long as no write has failed, the root of every commit that
\* publishes a version is the root of the store fed the same authenticated
\* changes and no nonconsensus change, whatever nonconsensus changes the
\* deltas carried.
C10_RootIgnoresNonconsensus ==
    \A c \in Callers :
        (calls[c].pc = "send" /\ faults = 0)
        => calls[c].root = RootHashOf(twin)
\* No write has failed; the second commit carries a nonconsensus change and an
\* authenticated one, and its root covers two keys.
C10_Witness ==
    \E c \in Callers :
        /\ calls[c].pc = "send"
        /\ faults = 0
        /\ calls[c].new_version = 1
        /\ calls[c].nc # NoNonconsensus
        /\ nonconsensus # NoNonconsensus
        /\ Cardinality(calls[c].root) = 2

\* The version a store that started empty has reached after n commits.
VersionAfter(n) == wrapping_add(PRE_GENESIS_VERSION, n)

\* C11. Determinism: the (version, root hash) pair of every commit that is
\* installed is the pair of an independent store that started empty and was
\* fed the same ordered list of deltas.
C11_Determinism ==
    [][\A c \in Callers :
          (calls[c].pc = "push" /\ calls'[c].pc = "send")
          => <<calls'[c].new_version, calls'[c].root>>
                = <<VersionAfter(Len(installed')), RootHashOf(twin')>>]_vars

\* C12. VersionedKey round trip: encode(x) is exactly 40 bytes, the 32 bytes
\* of the key hash followed by the version as 8 big-endian bytes, and
\* decode(encode(x)) gives back the key hash and the version of x; decode of a
\* buffer whose length is not 40 is an error.
C12_VersionedKeyRoundTrip ==
    /\ codec.pc \in {"encoded", "roundtrip"}
       => /\ Len(codec.buf) = 40
          /\ SubSeq(codec.buf, 1, 32) = codec.x.key_hash
          /\ \A i \in 0..3 : /\ codec.buf[40 - i] = (codec.x.version \div (256 ^ i)) % 256
                             /\ codec.buf[36 - i] = 0
    /\ codec.pc = "roundtrip"
       => /\ codec.out.ok
          /\ codec.out.key.key_hash = codec.x.key_hash
          /\ codec.out.key.version = codec.x.version
    /\ (codec.pc = "decoded" /\ Len(codec.buf) # 40) => ~codec.out.ok
\* The key (ca 23 23 .., 258) went through encode and decode: its version
\* bytes are 00 00 00 00 00 00 01 02.
C12_Witness ==
    /\ codec.pc = "roundtrip"
    /\ codec.x.version = 258
    /\ codec.x.key_hash[1] = 202
    /\ codec.buf[39] = 1
    /\ codec.buf[40] = 2
    /\ codec.out.ok

\* C13 as stated: the pre-genesis sentinel (the largest version value) is
\* never the version of an installed snapshot, after any sequence of commits.
C13_SentinelNeverCommitted == PRE_GENESIS_VERSION \notin Range(installed)

\* C13, amended. The i-th commit installs version i - 1 modulo 2^64: the first
\* commit on an empty store installs version 0, each commit installs the
\* successor (wrapping) of the one before, and no sequence of fewer than 2^64
\* commits installs the sentinel; the 2^64-th commit does install it.
C13_SentinelOnlyAtWrap ==
    \A i \in 1..Len(installed) :
        /\ i = 1 => installed[i] = 0
        /\ i > 1 => installed[i] = (installed[i - 1] + 1) % VersionModulus
        /\ i < VersionModulus => installed[i] # PRE_GENESIS_VERSION
        /\ i = VersionModulus => installed[i] = PRE_GENESIS_VERSION
\* The version counter has wrapped: the sentinel was installed as a version
\* and the commit after it installed version 0 again.
C13_Witness ==
    /\ Len(installed) = VersionModulus + 1
    /\ installed[VersionModulus] = PRE_GENESIS_VERSION
    /\ installed[VersionModulus + 1] = 0
    /\ latest_version = 0

\* C14. The try_push of the commit worker never fails: in every interleaving
\* of commit calls, whenever a worker is about to push, the version of its
\* snapshot is exactly latest.version() + 1 (wrapping).
C14_TryPushNeverFails ==
    \A c \in Callers :
        calls[c].pc = "push" => CanPush(snapshots, calls[c].new_version)

\* The highest version committed so far, the sentinel if there is none.
HighestCommitted ==
    IF installed = <<>> THEN PRE_GENESIS_VERSION ELSE installed[Len(installed)]

\* C15. Bootstrap: when the store is closed and reopened for the first time
\* after a sequence of successful commits (no call running, no step ever
\* failed), latest_version()
\* of the reopened store is the highest version committed before the close,
\* and the sentinel only if nothing was committed.
C15_BootstrapFindsLatest ==
    [][(load /\ loads = 0 /\ faults = 0 /\ \A c \in Callers : ~InWorker(c))
       => latest_version' = HighestCommitted]_vars

\* The version the store was at before the commit that is running, if any.
OldVersion ==
    IF calls[SerialCaller].pc = "send" THEN calls[SerialCaller].base
    ELSE HighestCommitted

\* C16. Crash tolerance: if the process stops at any point of a commit worker
\* (between two of its steps, or between two writes of a step) and the store
\* is reopened, the bootstrapped latest version is the old version or the new
\* one, and every key that is a leaf of the tree of the bootstrapped version
\* is read at that version with the value of its leaf.
C16_CrashTolerance ==
    [][(load /\ loads = 0)
       => LET V == latest_version'
          IN  /\ V \in {OldVersion, wrapping_add(OldVersion, 1)}
              /\ V # PRE_GENESIS_VERSION
                 => \A k \in Keys :
                       TreeAt(V)[KeyHashWith(k)] # None
                       => SnapshotGet(V, k) = TreeAt(V)[KeyHashWith(k)]]_vars

\* C17. The indexes always describe a published version: in every state where
\* no commit worker is running, a state after a commit whose worker failed
\* included, jmt_keys and jmt_keys_by_keyhash are mutual inverses over exactly
\* the keys that are live at the latest published version.
C17_IndexesDescribePublishedVersion ==
    (\A c \in Callers : ~InWorker(c))
    => \A k \in Keys :
          /\ jmt_keys[k] = (IF LiveAtLatest(k) THEN KeyHashWith(k) ELSE Absent)
          /\ jmt_keys_by_keyhash[KeyHashWith(k)] = (IF LiveAtLatest(k) THEN k ELSE Absent)

\* C18. For every published version V and every key k that is live at V with
\* value B, the jmt_values column family holds B under the VersionedKey
\* (hash(k), V).
C18_LiveLeafHasRowAtVersion ==
    \A V \in Range(installed) :
        \A k \in Keys :
            LET h == KeyHashWith(k)
            IN  TreeAt(V)[h] # None => get_cf(jmt_values, <<h, V>>) = TreeAt(V)[h]

\* C19. Each successful commit sends exactly one notification, carrying the
\* snapshot of its new version, and no other call sends one; when no receiver
\* exists the send fails, the failure is ignored, the channel keeps its value,
\* and the commit still returns Ok with its root hash and its snapshot
\* installed.
C19_OneNotificationPerCommit ==
    [][/\ Len(notified') = ok_commits'
       /\ \A c \in Callers :
             (InWorker(c) /\ calls'[c].pc = "done" /\ calls'[c].result = "Ok")
             => /\ notified' = Append(notified, calls[c].new_version)
                /\ calls[c].new_version \in Range(installed)
                /\ calls'[c].root = calls[c].root
                /\ IF \E r \in Receivers : rx[r].live
                   THEN state_tx' = calls[c].new_version
                   ELSE UNCHANGED <<state_tx, rx>>
       /\ \A c \in Callers :
             (calls'[c] # calls[c] /\ calls'[c].pc = "done" /\ calls'[c].result # "Ok")
             => notified' = notified]_vars
\* A commit returned Ok with its root while no receiver existed: version 0 is
\* installed, one send was made and the channel still holds the pre-genesis
\* snapshot.
C19_Witness ==
    /\ \E c \in Callers : calls[c].result = "Ok" /\ calls[c].root # {}
    /\ \A r \in Receivers : ~rx[r].live
    /\ ok_commits = 1
    /\ installed = <<0>>
    /\ notified = <<0>>
    /\ latest_version = 0
    /\ state_tx = PRE_GENESIS_VERSION

\* C20. Install precedes notify: whenever the channel holds, or a receiver
\* has observed, the snapshot of a version V sent by a commit, V is installed
\* and latest_version() is V or a later committed version, never still the
\* version before V.
C20_InstallPrecedesNotify ==
    \A r \in Receivers :
        \A V \in Range(rx[r].observed) \cup (IF rx[r].changed THEN {state_tx} ELSE {}) :
            /\ V \in Range(installed)
            /\ latest_version \in Range(installed)
            /\ V <= latest_version
\* A receiver has observed version 0 and nothing since, while version 1 is
\* installed and its notification is still to be sent.
C20_Witness ==
    \E r \in Receivers :
        /\ rx[r].live
        /\ rx[r].observed = <<0>>
        /\ ~rx[r].changed
        /\ latest_version = 1
        /\ \E c \in Callers : calls[c].pc = "send" /\ calls[c].new_version = 1

\* C21. Commit is not cancellable once its worker has started: a worker whose
\* awaiting task was dropped still runs all its steps, pushes its snapshot
\* into the cache, sends it on the channel and ends with Ok (no write fails).
C21_DroppedWorkerCompletes ==
    \A c \in Callers :
        (InWorker(c) /\ ~calls[c].awaited)
        ~> (calls[c].pc = "done" /\ calls[c].result = "Ok" /\ ~calls[c].awaited)

\* The snapshots pushed since the store was created empty, the pre-genesis one
\* first, and the ones a cache of capacity 10 retains of them.
Pushed == <<PRE_GENESIS_VERSION>> \o installed
Retained == Suffix(Pushed, Min(Len(Pushed), 10))

\* C22. The snapshot cache is bounded and contiguous: it holds at most 10
\* snapshots, their versions are consecutive (wrapping) and end at the latest
\* committed version, a push at capacity has evicted the oldest one (the cache
\* is the last 10 snapshots pushed), and Storage::snapshot(v) returns the
\* snapshot pinned at v exactly when v is a retained version, none otherwise.
C22_CacheBoundedContiguous ==
    /\ Len(snapshots) >= 1
    /\ Len(snapshots) <= 10
    /\ \A i \in 1..(Len(snapshots) - 1) :
          snapshots[i + 1] = wrapping_add(snapshots[i], 1)
    /\ latest_version = HighestCommitted
    /\ snapshots = Retained
    /\ \A v \in 0..PRE_GENESIS_VERSION :
          snapshot(v) = (IF v \in Range(Retained) THEN <<v>> ELSE <<>>)
\* The cache was full, holding the pre-genesis snapshot and versions 0 to 8,
\* and two more commits were pushed: the two oldest snapshots were evicted,
\* snapshot() no longer returns the last one evicted, and the cache starts at
\* its successor.
C22_Witness ==
    /\ Len(Pushed) = SnapshotCacheCapacity + 2
    /\ Len(snapshots) = 10
    /\ LET evicted == Pushed[Len(Pushed) - 10]
       IN  /\ snapshot(evicted) = <<>>
           /\ snapshots[1] = wrapping_add(evicted, 1)
           /\ snapshot(snapshots[1]) = <<snapshots[1]>>
    /\ snapshot(latest_version) = <<latest_version>>
    /\ calls[SerialCaller].pc = "done"

\* C23. Nonconsensus reads are latest-only: whenever no commit is running,
\* for every raw key x, nonconsensus_get(x), on a snapshot of any version,
\* returns the value written by the most recent completed commit that changed
\* x, and none if that commit deleted x or no completed commit wrote it.
C23_NonconsensusLatestCompleted ==
    (\A c \in Callers : ~InWorker(c))
    => \A x \in NCKeys : NonconsensusGet(x) = nc_completed[x]

\* C24. Once a commit has completed (and no other is running), the value held
\* by the subscription channel is the latest snapshot of the snapshot cache,
\* whether or not a receiver existed during the commit; so the current value
\* read by a receiver that subscribe() created after the commits is the latest
\* committed snapshot.
C24_ChannelHoldsLatest ==
    (ok_commits >= 1 /\ \A c \in Callers : ~InWorker(c))
    => /\ state_tx = latest_snapshot
       /\ \A r \in Receivers :
             (rx[r].live /\ rx[r].since = ok_commits) => state_tx = HighestCommitted

\* C25. A version becomes visible only when fully written, and stays as
\* written: when the commit that produced V has pushed its snapshot, V is the
\* latest version and the index rows, the node rows, the jmt_values rows and
\* the nonconsensus changes of that commit are in the backing store; and when
\* no commit is running, the rows put by the commits that published a version
\* are still there (the index rows of the keys live in the published tree,
\* the nonconsensus values they put, the nodes of the latest version),
\* whatever calls ended without publishing one.
C25_VisibleOnlyWhenWritten ==
    /\ \A c \in Callers :
          calls[c].pc = "send" =>
              LET V == calls[c].new_version
                  ch == calls[c].changes
                  nc == calls[c].nc
              IN  /\ latest_snapshot = V
                  /\ snapshot(V) = <<V>>
                  /\ \A k \in Keys :
                        ch[k] # Absent =>
                            /\ jmt_keys[k] = (IF ch[k] # None THEN KeyHashWith(k) ELSE Absent)
                            /\ jmt_keys_by_keyhash[KeyHashWith(k)]
                                   = (IF ch[k] # None THEN k ELSE Absent)
                            /\ ch[k] # None => get_cf(jmt_values, <<KeyHashWith(k), V>>) = ch[k]
                  /\ <<V, RootPath>> \in DOMAIN jmt
                  /\ RootHashOf(TreeAt(V)) = calls[c].root
                  /\ \A x \in NCKeys :
                        nc[x] # Absent =>
                            nonconsensus[x] = (IF nc[x] # None THEN nc[x] ELSE Absent)
    /\ (installed # <<>> /\ \A c \in Callers : ~InWorker(c)) =>
          /\ \A k \in Keys :
                LET h == KeyHashWith(k)
                IN  twin[h] # None => /\ jmt_keys[k] = h
                                      /\ jmt_keys_by_keyhash[h] = k
          /\ \A x \in NCKeys :
                nc_completed[x] # None => nonconsensus[x] = nc_completed[x]
          /\ <<latest_version, RootPath>> \in DOMAIN jmt
          /\ TreeAt(latest_version) = twin

====
